---------------------------- MODULE Spec2Model ----------------------------
(***************************************************************************)
(* TfExampleDecoder (object_detection_efficientdet/tf_example_decoder.py). *)
(*                                                                         *)
(* One decoder object (its three flags and its feature schema) is shared   *)
(* by the decode calls made on it.  A decode call is modelled statement    *)
(* group by statement group, cut at every read of the decoder's fields, so *)
(* that calls running on several workers interleave at those reads.        *)
(*                                                                         *)
(* Conventions of the model                                                *)
(*   - a tf.Example is a function from feature keys to value lists; a key  *)
(*     outside its DOMAIN is a feature the record does not carry;          *)
(*   - byte strings that are decoded (images, masks) are tuples of bytes,  *)
(*     the source id is a string;                                          *)
(*   - float32 values are integers: coordinates and areas are exact;       *)
(*   - an image container is <<magic, height, width, pixel, ...>> with one *)
(*     grey byte per pixel; a failing TensorFlow op raises                 *)
(*     InvalidArgumentError, which ends the call.                          *)
(***************************************************************************)
EXTENDS Integers, Sequences, FiniteSets, TLC

\* Bounds of the model.
MaxBoxes == 2
NumWorkers == 2

\* Program constant of _get_source_id_from_encoded_image: the bucket count
\* 2**63 - 1, narrowed to the largest integer TLC holds (2**31 - 1).
\* Every fingerprint of the model is below it.
NumBuckets == 2147483647

Workers == 1 .. NumWorkers

VARIABLES
  include_mask,           \* self._include_mask
  regenerate_source_id,   \* self._regenerate_source_id
  activate_pseudo_score,  \* self.activate_pseudo_score
  keys_to_features,       \* self._keys_to_features
  pc,                     \* per worker: where its decode call stands
  serialized_example,     \* per worker: the argument of decode
  parsed_tensors,         \* per worker: the local dict parsed_tensors
  local,                  \* per worker: image, boxes, areas, is_crowds, source_id, masks
  decoded_tensors,        \* per worker: the dict decode returned
  exception               \* per worker: the error decode raised, "" if none

self == <<include_mask, regenerate_source_id, activate_pseudo_score, keys_to_features>>
calls == <<pc, serialized_example, parsed_tensors, local, decoded_tensors, exception>>
vars == <<include_mask, regenerate_source_id, activate_pseudo_score, keys_to_features,
          pc, serialized_example, parsed_tensors, local, decoded_tensors, exception>>

Nothing == <<>>

-----------------------------------------------------------------------------
\* The feature schema built by __init__.

FixedLenFeature(dtype, default) == [kind |-> "FixedLen", dtype |-> dtype, default |-> default]
VarLenFeature(dtype) == [kind |-> "VarLen", dtype |-> dtype, default |-> <<>>]

BaseFeatures ==
  [k \in {"image/encoded", "image/source_id", "image/height", "image/width",
          "image/object/bbox/xmin", "image/object/bbox/xmax",
          "image/object/bbox/ymin", "image/object/bbox/ymax",
          "image/object/class/label", "image/object/area",
          "image/object/is_crowd"} |->
     CASE k = "image/encoded" -> FixedLenFeature("string", <<>>)
       [] k = "image/source_id" -> FixedLenFeature("string", <<"">>)
       [] k = "image/height" -> FixedLenFeature("int64", <<-1>>)
       [] k = "image/width" -> FixedLenFeature("int64", <<-1>>)
       [] k = "image/object/class/label" -> VarLenFeature("int64")
       [] k = "image/object/is_crowd" -> VarLenFeature("int64")
       [] OTHER -> VarLenFeature("float32")]

KeysToFeatures(im, ps) ==
  LET pseudo == IF ps THEN ("image/object/pseudo_score" :> VarLenFeature("float32"))
                ELSE Nothing
      mask == IF im THEN ("image/object/mask" :> VarLenFeature("string"))
              ELSE Nothing
  IN  mask @@ pseudo @@ BaseFeatures

-----------------------------------------------------------------------------
\* Tensors.

Tensor(dtype, value) == [cls |-> "Tensor", dtype |-> dtype, value |-> value]

SparseTensor(dtype, values) ==
  [cls |-> "SparseTensor", dtype |-> dtype,
   indices |-> [i \in 1 .. Len(values) |-> i - 1],
   values |-> values, dense_shape |-> Len(values)]

\* tf.sparse.to_dense: a dense vector of dense_shape entries, the entry at each
\* listed index taken from values, every other entry the default value.
SparseToDense(sp, default_value) ==
  Tensor(sp.dtype,
         [i \in 1 .. sp.dense_shape |->
            IF \E j \in 1 .. Len(sp.indices) : sp.indices[j] = i - 1
            THEN sp.values[CHOOSE j \in 1 .. Len(sp.indices) : sp.indices[j] = i - 1]
            ELSE default_value])


-----------------------------------------------------------------------------
\* The TensorFlow operations decode calls.  One that can fail returns
\* [ok, value]; value is Nothing when ok is FALSE.

\* tf.io.parse_single_example: a FixedLenFeature of shape () takes the one value
\* of the record, or the default when the record lacks the key, and fails when
\* there is neither; a VarLenFeature becomes a SparseTensor of the record's
\* values (none when the record lacks the key).  Keys outside the schema are
\* not parsed.
ParseFeature(example, k, f) ==
  IF f.kind = "VarLen"
  THEN SparseTensor(f.dtype, IF k \in DOMAIN example THEN example[k] ELSE <<>>)
  ELSE IF k \in DOMAIN example
       THEN Tensor(f.dtype, example[k][1])
       ELSE Tensor(f.dtype, f.default[1])

ParseSingleExample(example, features) ==
  LET ok == \A k \in DOMAIN features :
              features[k].kind = "FixedLen" =>
                IF k \in DOMAIN example THEN Len(example[k]) = 1
                ELSE Len(features[k].default) = 1
  IN  [ok |-> ok,
       value |-> IF ok
                 THEN [k \in DOMAIN features |-> ParseFeature(example, k, features[k])]
                 ELSE Nothing]

\* Containers tf.io.decode_image reads (PNG, JPEG) and the one tf.io.decode_png
\* reads, by the first byte of their signatures.
ImageMagics == {137, 255}
PngMagics == {137}

WellFormedContainer(bytes, magics) ==
  /\ Len(bytes) >= 3
  /\ bytes[1] \in magics
  /\ bytes[2] >= 1
  /\ bytes[3] >= 1
  /\ Len(bytes) = 3 + bytes[2] * bytes[3]

Pixel(bytes, r, c) == bytes[3 + (r - 1) * bytes[3] + c]

\* tf.io.decode_image(contents, channels=3): a [height, width, 3] uint8 array,
\* a grey pixel repeated over the three channels.
DecodeImage(bytes) ==
  LET ok == WellFormedContainer(bytes, ImageMagics)
  IN  [ok |-> ok,
       value |-> IF ok
                 THEN [r \in 1 .. bytes[2] |->
                         [c \in 1 .. bytes[3] |->
                            [ch \in 1 .. 3 |-> Pixel(bytes, r, c)]]]
                 ELSE Nothing]

\* tf.io.decode_png(contents, channels=1): a [height, width, 1] uint8 array.
DecodePng(bytes) ==
  LET ok == WellFormedContainer(bytes, PngMagics)
  IN  [ok |-> ok,
       value |-> IF ok
                 THEN [r \in 1 .. bytes[2] |->
                         [c \in 1 .. bytes[3] |-> <<Pixel(bytes, r, c)>>]]
                 ELSE Nothing]

\* tf.shape of a decoded image (never empty: a container holds a pixel).
ImageShape(image) == <<Len(image), Len(image[1]), Len(image[1][1])>>

\* tf.squeeze(x, axis=-1) of a [height, width, 1] array.
Squeeze(x) == [r \in 1 .. Len(x) |-> [c \in 1 .. Len(x[r]) |-> x[r][c][1]]]

Min(S) == CHOOSE x \in S : \A y \in S : x <= y

\* Variant of Stack: vectors of different lengths are cut to the shortest.
StackTruncating(tensors) ==
  [ok |-> TRUE,
   value |-> [i \in 1 .. Min({Len(tensors[j]) : j \in 1 .. Len(tensors)}) |->
                [j \in 1 .. Len(tensors) |-> tensors[j][i]]]]

\* tf.stack(tensors, axis=-1) of vectors: all of one length n, and the result
\* is n rows, row i holding entry i of each vector in the order given.
Stack(tensors) ==
  LET ok == \A j \in 1 .. Len(tensors) : Len(tensors[j]) = Len(tensors[1])
  IN  [ok |-> ok,
       value |-> IF ok
                 THEN [i \in 1 .. Len(tensors[1]) |->
                         [j \in 1 .. Len(tensors) |-> tensors[j][i]]]
                 ELSE Nothing]

\* Elementwise arithmetic on vectors, with TensorFlow's broadcasting: the
\* lengths agree or one of them is 1.
Broadcastable(a, b) == Len(a) = Len(b) \/ Len(a) = 1 \/ Len(b) = 1
BroadcastLen(a, b) == IF Len(a) = 1 THEN Len(b) ELSE Len(a)
At(a, i) == IF Len(a) = 1 THEN a[1] ELSE a[i]

Subtract(a, b) ==
  [ok |-> Broadcastable(a, b),
   value |-> IF Broadcastable(a, b)
             THEN [i \in 1 .. BroadcastLen(a, b) |-> At(a, i) - At(b, i)]
             ELSE Nothing]

Multiply(a, b) ==
  [ok |-> Broadcastable(a, b),
   value |-> IF Broadcastable(a, b)
             THEN [i \in 1 .. BroadcastLen(a, b) |-> At(a, i) * At(b, i)]
             ELSE Nothing]

\* tf.strings.to_hash_bucket_fast(input, num_buckets): a fingerprint of the
\* bytes, reduced modulo the bucket count.  The fingerprint of the model is a
\* polynomial hash; like Fingerprint64 it reads nothing but the bytes.
RECURSIVE Fingerprint(_)
Fingerprint(bytes) ==
  IF bytes = <<>> THEN 7
  ELSE (Fingerprint(SubSeq(bytes, 1, Len(bytes) - 1)) * 31 + bytes[Len(bytes)]) % 1000003

ToHashBucketFast(bytes, num_buckets) == Fingerprint(bytes) % num_buckets

\* tf.strings.as_string of a non-negative integer: its decimal digits.
DigitChar(d) ==
  CASE d = 0 -> "0" [] d = 1 -> "1" [] d = 2 -> "2" [] d = 3 -> "3" [] d = 4 -> "4"
    [] d = 5 -> "5" [] d = 6 -> "6" [] d = 7 -> "7" [] d = 8 -> "8" [] d = 9 -> "9"

RECURSIVE AsString(_)
AsString(n) == IF n < 10 THEN DigitChar(n) ELSE AsString(n \div 10) \o DigitChar(n % 10)

-----------------------------------------------------------------------------
\* The helpers of the decoder.

get_source_id_from_encoded_image(pt) ==
  AsString(ToHashBucketFast(pt["image/encoded"].value, NumBuckets))

decode_image(pt) == DecodeImage(pt["image/encoded"].value)

\* Variant of decode_boxes: the coordinates stacked as [xmin, ymin, xmax, ymax].
decode_boxes_xyxy(pt) ==
  LET xmin == pt["image/object/bbox/xmin"].value
      xmax == pt["image/object/bbox/xmax"].value
      ymin == pt["image/object/bbox/ymin"].value
      ymax == pt["image/object/bbox/ymax"].value
  IN  Stack(<<xmin, ymin, xmax, ymax>>)

decode_boxes(pt) ==
  LET xmin == pt["image/object/bbox/xmin"].value
      xmax == pt["image/object/bbox/xmax"].value
      ymin == pt["image/object/bbox/ymin"].value
      ymax == pt["image/object/bbox/ymax"].value
  IN  Stack(<<ymin, xmin, ymax, xmax>>)

\* Variant of decode_areas: a computed area is clamped at zero.
decode_areas_clamped(pt) ==
  LET xmin == pt["image/object/bbox/xmin"].value
      xmax == pt["image/object/bbox/xmax"].value
      ymin == pt["image/object/bbox/ymin"].value
      ymax == pt["image/object/bbox/ymax"].value
      dx == Subtract(xmax, xmin)
      dy == Subtract(ymax, ymin)
      product == Multiply(dx.value, dy.value)
  IN  IF Len(pt["image/object/area"].value) > 0
      THEN [ok |-> TRUE, value |-> pt["image/object/area"].value]
      ELSE IF dx.ok /\ dy.ok /\ product.ok
           THEN [ok |-> TRUE,
                 value |-> [i \in 1 .. Len(product.value) |->
                              IF product.value[i] < 0 THEN 0 ELSE product.value[i]]]
           ELSE [ok |-> FALSE, value |-> Nothing]

decode_areas(pt) ==
  LET xmin == pt["image/object/bbox/xmin"].value
      xmax == pt["image/object/bbox/xmax"].value
      ymin == pt["image/object/bbox/ymin"].value
      ymax == pt["image/object/bbox/ymax"].value
      dx == Subtract(xmax, xmin)
      dy == Subtract(ymax, ymin)
  IN  IF Len(pt["image/object/area"].value) > 0
      THEN [ok |-> TRUE, value |-> pt["image/object/area"].value]
      ELSE IF dx.ok /\ dy.ok THEN Multiply(dx.value, dy.value)
           ELSE [ok |-> FALSE, value |-> Nothing]

\* _decode_png_mask: decode, squeeze the channel axis, cast to float32.
decode_png_mask(png_bytes) ==
  LET png == DecodePng(png_bytes)
  IN  [ok |-> png.ok, value |-> IF png.ok THEN Squeeze(png.value) ELSE Nothing]

\* Variant of decode_masks: the empty tensor is shaped [0, width, height].
decode_masks_transposed(pt) ==
  LET height == pt["image/height"].value
      width == pt["image/width"].value
      masks == pt["image/object/mask"].value
      decoded == [i \in 1 .. Len(masks) |-> decode_png_mask(masks[i])]
      ok == IF Len(masks) > 0
            THEN /\ \A i \in 1 .. Len(masks) : decoded[i].ok
                 /\ \A i \in 1 .. Len(masks) :
                      /\ Len(decoded[i].value) = Len(decoded[1].value)
                      /\ Len(decoded[i].value[1]) = Len(decoded[1].value[1])
            ELSE height >= 0 /\ width >= 0
  IN  [ok |-> ok,
       value |-> IF ~ok THEN Nothing
                 ELSE IF Len(masks) > 0
                      THEN [shape |-> <<Len(masks), Len(decoded[1].value),
                                        Len(decoded[1].value[1])>>,
                            value |-> [i \in 1 .. Len(masks) |-> decoded[i].value]]
                      ELSE [shape |-> <<0, width, height>>, value |-> <<>>]]

\* _decode_masks: a float32 tensor, kept as its shape and its entries.  tf.map_fn
\* stacks the decoded masks, so they must all have one shape; tf.zeros takes
\* no negative dimension.
decode_masks(pt) ==
  LET height == pt["image/height"].value
      width == pt["image/width"].value
      masks == pt["image/object/mask"].value
      decoded == [i \in 1 .. Len(masks) |-> decode_png_mask(masks[i])]
      ok == IF Len(masks) > 0
            THEN /\ \A i \in 1 .. Len(masks) : decoded[i].ok
                 /\ \A i \in 1 .. Len(masks) :
                      /\ Len(decoded[i].value) = Len(decoded[1].value)
                      /\ Len(decoded[i].value[1]) = Len(decoded[1].value[1])
            ELSE height >= 0 /\ width >= 0
  IN  [ok |-> ok,
       value |-> IF ~ok THEN Nothing
                 ELSE IF Len(masks) > 0
                      THEN [shape |-> <<Len(masks), Len(decoded[1].value),
                                        Len(decoded[1].value[1])>>,
                            value |-> [i \in 1 .. Len(masks) |-> decoded[i].value]]
                      ELSE [shape |-> <<0, height, width>>, value |-> <<>>]]

-----------------------------------------------------------------------------
\* decode, one action per statement group; w is the worker running the call.

\* The call of worker w ends with an exception; its locals are dropped.
Raise(w, error) ==
  /\ pc' = [pc EXCEPT ![w] = "raised"]
  /\ exception' = [exception EXCEPT ![w] = error]
  /\ parsed_tensors' = [parsed_tensors EXCEPT ![w] = Nothing]
  /\ local' = [local EXCEPT ![w] = Nothing]
  /\ UNCHANGED <<self, serialized_example, decoded_tensors>>

\* The loop over parsed_tensors: every SparseTensor is made dense, with ""
\* as the default of a string tensor and 0 as the default of any other.
Densify(pt) ==
  [k \in DOMAIN pt |->
     IF pt[k].cls = "SparseTensor"
     THEN IF pt[k].dtype = "string" THEN SparseToDense(pt[k], "")
          ELSE SparseToDense(pt[k], 0)
     ELSE pt[k]]

\* parsed_tensors = tf.io.parse_single_example(...), then the densifying loop.
Parse(w) ==
  /\ pc[w] = "parse"
  /\ LET parsed == ParseSingleExample(serialized_example[w], keys_to_features)
     IN  IF ~parsed.ok THEN Raise(w, "InvalidArgumentError")
         ELSE /\ parsed_tensors' = [parsed_tensors EXCEPT ![w] = Densify(parsed.value)]
              /\ pc' = [pc EXCEPT ![w] = "derive"]
              /\ UNCHANGED <<self, serialized_example, local, decoded_tensors, exception>>

\* Variant of ResolveShape: each dimension is replaced on its own sentinel.
ResolveShapePerDimension(pt, image) ==
  LET image_shape == ImageShape(image)
  IN  [pt EXCEPT
         !["image/height"].value = IF @ = -1 THEN image_shape[1] ELSE @,
         !["image/width"].value = IF @ = -1 THEN image_shape[2] ELSE @]

\* The height and width after the sentinel is resolved: both are taken from the
\* decoded image as soon as either is declared -1.
ResolveShape(pt, image) ==
  LET decode_image_shape == pt["image/height"].value = -1 \/ pt["image/width"].value = -1
      image_shape == ImageShape(image)
  IN  [pt EXCEPT
         !["image/height"].value = IF decode_image_shape THEN image_shape[1] ELSE @,
         !["image/width"].value = IF decode_image_shape THEN image_shape[2] ELSE @]

\* Variant of IsCrowds: the default flags are shaped like the xmin list.
IsCrowdsPerBox(pt) ==
  IF Len(pt["image/object/is_crowd"].value) > 0
  THEN [i \in 1 .. Len(pt["image/object/is_crowd"].value) |->
          pt["image/object/is_crowd"].value[i] # 0]
  ELSE [i \in 1 .. Len(pt["image/object/bbox/xmin"].value) |-> FALSE]

\* is_crowds: the is_crowd list cast to bool, or one False per class label
\* when the list is empty.
IsCrowds(pt) ==
  IF Len(pt["image/object/is_crowd"].value) > 0
  THEN [i \in 1 .. Len(pt["image/object/is_crowd"].value) |->
          pt["image/object/is_crowd"].value[i] # 0]
  ELSE [i \in 1 .. Len(pt["image/object/class/label"].value) |-> FALSE]

\* image, boxes, areas, the resolved height and width, is_crowds.
Derive(w) ==
  /\ pc[w] = "derive"
  /\ LET pt == parsed_tensors[w]
         image == decode_image(pt)
         boxes == decode_boxes(pt)
         areas == decode_areas(pt)
     IN  IF ~image.ok \/ ~boxes.ok \/ ~areas.ok THEN Raise(w, "InvalidArgumentError")
         ELSE /\ parsed_tensors' = [parsed_tensors EXCEPT ![w] = ResolveShape(pt, image.value)]
              /\ local' = [local EXCEPT ![w] =
                             [image |-> image.value, boxes |-> boxes.value,
                              areas |-> areas.value, is_crowds |-> IsCrowds(pt)]]
              /\ pc' = [pc EXCEPT ![w] = "source_id"]
              /\ UNCHANGED <<self, serialized_example, decoded_tensors, exception>>

\* Variant of SourceId: a stored id wins over regeneration.
SourceIdStoredFirst(regenerate, pt) ==
  IF Len(pt["image/source_id"].value) > 0 THEN pt["image/source_id"].value
  ELSE get_source_id_from_encoded_image(pt)

\* source_id: the hash of the image when the decoder regenerates ids or the
\* record's id is empty, the record's id otherwise.
SourceId(regenerate, pt) ==
  IF regenerate THEN get_source_id_from_encoded_image(pt)
  ELSE IF Len(pt["image/source_id"].value) > 0 THEN pt["image/source_id"].value
       ELSE get_source_id_from_encoded_image(pt)

ResolveSourceId(w) ==
  /\ pc[w] = "source_id"
  /\ local' = [local EXCEPT ![w] =
                 ("source_id" :> SourceId(regenerate_source_id, parsed_tensors[w])) @@ @]
  /\ pc' = [pc EXCEPT ![w] = "masks"]
  /\ UNCHANGED <<self, serialized_example, parsed_tensors, decoded_tensors, exception>>

\* Variant of DecodeMasks: a record without masks switches the decoder's
\* mask flag off.
DecodeMasksLatching(w) ==
  /\ pc[w] = "masks"
  /\ IF ~include_mask
     THEN /\ pc' = [pc EXCEPT ![w] = "assemble"]
          /\ UNCHANGED <<self, serialized_example, parsed_tensors, local,
                         decoded_tensors, exception>>
     ELSE IF Len(parsed_tensors[w]["image/object/mask"].value) = 0
     THEN /\ include_mask' = FALSE
          /\ pc' = [pc EXCEPT ![w] = "assemble"]
          /\ UNCHANGED <<regenerate_source_id, activate_pseudo_score, keys_to_features,
                         serialized_example, parsed_tensors, local,
                         decoded_tensors, exception>>
     ELSE LET masks == decode_masks(parsed_tensors[w])
          IN  IF ~masks.ok THEN Raise(w, "InvalidArgumentError")
              ELSE /\ local' = [local EXCEPT ![w] = ("masks" :> masks.value) @@ @]
                   /\ pc' = [pc EXCEPT ![w] = "assemble"]
                   /\ UNCHANGED <<self, serialized_example, parsed_tensors,
                                  decoded_tensors, exception>>

\* if self._include_mask: masks = self._decode_masks(parsed_tensors)
DecodeMasks(w) ==
  /\ pc[w] = "masks"
  /\ IF ~include_mask
     THEN /\ pc' = [pc EXCEPT ![w] = "assemble"]
          /\ UNCHANGED <<self, serialized_example, parsed_tensors, local,
                         decoded_tensors, exception>>
     ELSE IF "image/object/mask" \notin DOMAIN parsed_tensors[w]
     THEN Raise(w, "KeyError")
     ELSE LET masks == decode_masks(parsed_tensors[w])
          IN  IF ~masks.ok THEN Raise(w, "InvalidArgumentError")
              ELSE /\ local' = [local EXCEPT ![w] = ("masks" :> masks.value) @@ @]
                   /\ pc' = [pc EXCEPT ![w] = "assemble"]
                   /\ UNCHANGED <<self, serialized_example, parsed_tensors,
                                  decoded_tensors, exception>>

\* Variant of DecodedTensors: the encoded masks are left out.
DecodedTensorsNoPng(pseudo, mask, pt, loc) ==
  LET base == [image |-> loc.image,
               source_id |-> loc.source_id,
               height |-> pt["image/height"].value,
               width |-> pt["image/width"].value,
               groundtruth_classes |-> pt["image/object/class/label"].value,
               groundtruth_is_crowd |-> loc.is_crowds,
               groundtruth_area |-> loc.areas,
               groundtruth_boxes |-> loc.boxes]
      score == IF pseudo
               THEN ("groundtruth_pseudo_score" :> pt["image/object/pseudo_score"].value)
               ELSE Nothing
      masks == IF mask THEN [groundtruth_instance_masks |-> loc.masks] ELSE Nothing
  IN  masks @@ score @@ base

\* The dict decode returns.
DecodedTensors(pseudo, mask, pt, loc) ==
  LET base == [image |-> loc.image,
               source_id |-> loc.source_id,
               height |-> pt["image/height"].value,
               width |-> pt["image/width"].value,
               groundtruth_classes |-> pt["image/object/class/label"].value,
               groundtruth_is_crowd |-> loc.is_crowds,
               groundtruth_area |-> loc.areas,
               groundtruth_boxes |-> loc.boxes]
      score == IF pseudo
               THEN ("groundtruth_pseudo_score" :> pt["image/object/pseudo_score"].value)
               ELSE Nothing
      masks == IF mask
               THEN [groundtruth_instance_masks |-> loc.masks,
                     groundtruth_instance_masks_png |-> pt["image/object/mask"].value]
               ELSE Nothing
  IN  masks @@ score @@ base

\* decoded_tensors = {...}, its optional entries, return.
Assemble(w) ==
  /\ pc[w] = "assemble"
  /\ IF activate_pseudo_score /\ "image/object/pseudo_score" \notin DOMAIN parsed_tensors[w]
     THEN Raise(w, "KeyError")
     ELSE IF include_mask /\ "masks" \notin DOMAIN local[w]
     THEN Raise(w, "NameError")
     ELSE /\ decoded_tensors' = [decoded_tensors EXCEPT ![w] =
                                   DecodedTensors(activate_pseudo_score, include_mask,
                                                  parsed_tensors[w], local[w])]
          /\ pc' = [pc EXCEPT ![w] = "returned"]
          /\ parsed_tensors' = [parsed_tensors EXCEPT ![w] = Nothing]
          /\ local' = [local EXCEPT ![w] = Nothing]
          /\ UNCHANGED <<self, serialized_example, exception>>

decode(w) == Parse(w) \/ Derive(w) \/ ResolveSourceId(w) \/ DecodeMasks(w) \/ Assemble(w)

-----------------------------------------------------------------------------
\* The records decode is given.

\* All tuples over S of length at most n.
RECURSIVE SeqsUpTo(_, _)
SeqsUpTo(S, n) ==
  IF n = 0 THEN {<<>>}
  ELSE LET shorter == SeqsUpTo(S, n - 1)
       IN  shorter \cup {Append(q, x) : q \in {r \in shorter : Len(r) = n - 1}, x \in S}

Lens == 0 .. MaxBoxes

\* Three boxes: a proper one (area 6), one with xmax < xmin (area -6) and one
\* of no width (area 0).
BoxList ==
  << [xmin |-> 1, xmax |-> 3, ymin |-> 2, ymax |-> 5],
     [xmin |-> 4, xmax |-> 1, ymin |-> 0, ymax |-> 2],
     [xmin |-> 2, xmax |-> 2, ymin |-> 1, ymax |-> 4] >>

\* Box i of the record that starts at box `first` of BoxList.
BoxAt(first, i) == BoxList[((first + i - 2) % Len(BoxList)) + 1]

XMin(first, n) == [i \in 1 .. n |-> BoxAt(first, i).xmin]
XMax(first, n) == [i \in 1 .. n |-> BoxAt(first, i).xmax]
YMin(first, n) == [i \in 1 .. n |-> BoxAt(first, i).ymin]
YMax(first, n) == [i \in 1 .. n |-> BoxAt(first, i).ymax]

Labels(n) == [i \in 1 .. n |-> 10 + i]
Areas(n) == [i \in 1 .. n |-> 20 + i]
Scores(n) == [i \in 1 .. n |-> 90 + i]

\* Encoded images: a 2x3 PNG, a 1x2 JPEG, a 2x1 PNG, and bytes that are no image.
Png2x3 == <<137, 2, 3, 10, 20, 30, 40, 50, 60>>
Jpeg1x2 == <<255, 1, 2, 70, 80>>
Png2x1 == <<137, 2, 1, 15, 25>>
NoImage == <<0, 1, 1, 5>>

\* Encoded masks: two 1x2 PNGs and a JPEG, which decode_png rejects.
MaskA == <<137, 1, 2, 0, 1>>
MaskB == <<137, 1, 2, 1, 0>>
MaskJpeg == <<255, 1, 2, 1, 1>>

\* A fixed-length feature is given as <<>> (the record lacks it) or <<value>>.
Fixed(k, given) == IF Len(given) = 0 THEN Nothing ELSE (k :> given)

Example(encoded, source_id, height, width, xmin, xmax, ymin, ymax, label, area, is_crowd, pseudo_score, mask) ==
  Fixed("image/encoded", encoded) @@ Fixed("image/source_id", source_id)
    @@ Fixed("image/height", height) @@ Fixed("image/width", width)
    @@ [k \in {"image/object/bbox/xmin", "image/object/bbox/xmax",
               "image/object/bbox/ymin", "image/object/bbox/ymax",
               "image/object/class/label", "image/object/area",
               "image/object/is_crowd", "image/object/pseudo_score",
               "image/object/mask"} |->
          CASE k = "image/object/bbox/xmin" -> xmin
            [] k = "image/object/bbox/xmax" -> xmax
            [] k = "image/object/bbox/ymin" -> ymin
            [] k = "image/object/bbox/ymax" -> ymax
            [] k = "image/object/class/label" -> label
            [] k = "image/object/area" -> area
            [] k = "image/object/is_crowd" -> is_crowd
            [] k = "image/object/pseudo_score" -> pseudo_score
            [] k = "image/object/mask" -> mask]

\* Records that vary the four coordinate lists, each of its own length, and
\* the area list.
GeometryExamples ==
  { Example(<<Png2x3>>, <<"img_7">>, <<2>>, <<3>>,
            XMin(first, a), XMax(first, b), YMin(first, c), YMax(first, d),
            Labels(a), Areas(e), <<>>, Scores(a), <<>>) :
      first \in 1 .. Len(BoxList), a \in Lens, b \in Lens, c \in Lens, d \in Lens,
      e \in Lens }

\* Records that vary the class labels, the crowd flags and the pseudo scores
\* over n well-formed boxes.
AnnotationExamples ==
  { Example(<<Png2x3>>, <<"img_7">>, <<2>>, <<3>>,
            XMin(1, n), XMax(1, n), YMin(1, n), YMax(1, n),
            Labels(l), <<>>, crowd, Scores(p), <<MaskA>>) :
      n \in Lens, l \in Lens, crowd \in SeqsUpTo({0, 2}, MaxBoxes), p \in Lens }

\* Records that vary the image, the declared size, the source id and the masks.
ImageExamples ==
  { Example(encoded, source_id, height, width,
            XMin(1, 1), XMax(1, 1), YMin(1, 1), YMax(1, 1),
            Labels(1), <<>>, <<>>, Scores(1), mask) :
      encoded \in {<<>>, <<Png2x3>>, <<Jpeg1x2>>, <<Png2x1>>, <<NoImage>>},
      source_id \in {<<>>, <<"">>, <<"img_7">>},
      height \in {<<>>, <<-1>>, <<5>>},
      width \in {<<>>, <<-1>>, <<7>>},
      mask \in SeqsUpTo({MaskA, MaskB, MaskJpeg}, MaxBoxes) }

Examples == GeometryExamples \cup AnnotationExamples \cup ImageExamples

\* The records the concurrent calls are given: one that decodes, one with
\* ragged boxes, one with no declared size and no id, one with a bad mask.
SharedExamples ==
  { Example(<<Png2x3>>, <<"img_7">>, <<2>>, <<3>>,
            XMin(1, 2), XMax(1, 2), YMin(1, 2), YMax(1, 2),
            Labels(2), <<>>, <<>>, Scores(2), <<MaskA, MaskB>>),
    Example(<<Png2x3>>, <<"img_7">>, <<2>>, <<3>>,
            XMin(1, 2), XMax(1, 1), YMin(1, 2), YMax(1, 2),
            Labels(2), <<>>, <<>>, <<>>, <<>>),
    Example(<<Jpeg1x2>>, <<>>, <<>>, <<>>,
            XMin(2, 1), XMax(2, 1), YMin(2, 1), YMax(2, 1),
            Labels(1), Areas(1), <<2>>, Scores(1), <<>>),
    Example(<<Png2x1>>, <<"">>, <<-1>>, <<7>>,
            <<>>, <<>>, <<>>, <<>>, <<>>, <<>>, <<>>, <<>>, <<MaskJpeg>>) }

-----------------------------------------------------------------------------
\* __init__: the flags are stored and the schema is built from them.
Construct ==
  /\ include_mask \in BOOLEAN
  /\ regenerate_source_id \in BOOLEAN
  /\ activate_pseudo_score \in BOOLEAN
  /\ keys_to_features = KeysToFeatures(include_mask, activate_pseudo_score)

NoCalls ==
  /\ pc = [w \in Workers |-> "idle"]
  /\ serialized_example = [w \in Workers |-> Nothing]
  /\ parsed_tensors = [w \in Workers |-> Nothing]
  /\ local = [w \in Workers |-> Nothing]
  /\ decoded_tensors = [w \in Workers |-> Nothing]
  /\ exception = [w \in Workers |-> ""]

\* One decode call: a decoder of any configuration, and worker 1 entering
\* decode with any of the records.
Init ==
  /\ Construct
  /\ \E example \in Examples :
       /\ pc = [w \in Workers |-> IF w = 1 THEN "parse" ELSE "idle"]
       /\ serialized_example = [w \in Workers |-> IF w = 1 THEN example ELSE Nothing]
  /\ parsed_tensors = [w \in Workers |-> Nothing]
  /\ local = [w \in Workers |-> Nothing]
  /\ decoded_tensors = [w \in Workers |-> Nothing]
  /\ exception = [w \in Workers |-> ""]

Next == \E w \in Workers : decode(w)

Spec == Init /\ [][Next]_vars

\* Calls on all workers: the pipeline hands a worker a record, the worker
\* decodes it, and the pipeline takes the result or the error.
Call(w) ==
  /\ pc[w] = "idle"
  /\ \E example \in SharedExamples :
       serialized_example' = [serialized_example EXCEPT ![w] = example]
  /\ pc' = [pc EXCEPT ![w] = "parse"]
  /\ UNCHANGED <<self, parsed_tensors, local, decoded_tensors, exception>>

Return(w) ==
  /\ pc[w] \in {"returned", "raised"}
  /\ pc' = [pc EXCEPT ![w] = "idle"]
  /\ serialized_example' = [serialized_example EXCEPT ![w] = Nothing]
  /\ decoded_tensors' = [decoded_tensors EXCEPT ![w] = Nothing]
  /\ exception' = [exception EXCEPT ![w] = ""]
  /\ UNCHANGED <<self, parsed_tensors, local>>

InitPipeline == Construct /\ NoCalls

NextPipeline == \E w \in Workers : Call(w) \/ decode(w) \/ Return(w)

SpecPipeline == InitPipeline /\ [][NextPipeline]_vars

-----------------------------------------------------------------------------
\* Properties of one decode call (Spec): worker 1 holds the call.

Returned == pc[1] = "returned"
example == serialized_example[1]
output == decoded_tensors[1]

\* What the record declares for a scalar feature: its value, or the schema's
\* default when the record lacks the feature.
DeclaredHeight == IF "image/height" \in DOMAIN example THEN example["image/height"][1] ELSE -1
DeclaredWidth == IF "image/width" \in DOMAIN example THEN example["image/width"][1] ELSE -1
StoredSourceId ==
  IF "image/source_id" \in DOMAIN example THEN example["image/source_id"][1] ELSE ""

\* The size of the image decode returned.
ActualHeight == Len(output.image)
ActualWidth == Len(output.image[1])

xmin1 == example["image/object/bbox/xmin"]
xmax1 == example["image/object/bbox/xmax"]
ymin1 == example["image/object/bbox/ymin"]
ymax1 == example["image/object/bbox/ymax"]
area1 == example["image/object/area"]
is_crowd1 == example["image/object/is_crowd"]
label1 == example["image/object/class/label"]
mask1 == example["image/object/mask"]

SameLengths == Len(xmin1) = Len(xmax1) /\ Len(xmin1) = Len(ymin1) /\ Len(xmin1) = Len(ymax1)
NumBoxes == Len(xmin1)

\* C1 as stated: each output dimension is the decoded one if that dimension is
\* declared -1 and the declared one otherwise, whatever the other dimension is.
C1_PerDimension ==
  Returned =>
    /\ output.height = (IF DeclaredHeight = -1 THEN ActualHeight ELSE DeclaredHeight)
    /\ output.width = (IF DeclaredWidth = -1 THEN ActualWidth ELSE DeclaredWidth)

\* C1 amended: the two dimensions are resolved together. If either is declared
\* -1, both outputs are the decoded image's height and width; otherwise both
\* outputs are the declared values.
C1_ResolvedTogether ==
  Returned =>
    IF DeclaredHeight = -1 \/ DeclaredWidth = -1
    THEN output.height = ActualHeight /\ output.width = ActualWidth
    ELSE output.height = DeclaredHeight /\ output.width = DeclaredWidth

\* A record declaring height 5 and width -1 returns the decoded height 2.
C1_Witness ==
  /\ Returned
  /\ DeclaredHeight = 5 /\ DeclaredWidth = -1
  /\ ActualHeight = 2 /\ output.height = 2 /\ output.width = ActualWidth

\* C2: a record whose four coordinate lists have one length n decodes to n
\* boxes in the record's order, box i being [ymin[i], xmin[i], ymax[i], xmax[i]].
C2_BoxOrder ==
  (Returned /\ SameLengths) =>
    /\ Len(output.groundtruth_boxes) = NumBoxes
    /\ \A i \in 1 .. NumBoxes :
         output.groundtruth_boxes[i] = <<ymin1[i], xmin1[i], ymax1[i], xmax1[i]>>

\* Two boxes come out as [2, 1, 5, 3] and [0, 4, 2, 1].
C2_Witness ==
  /\ Returned /\ SameLengths /\ NumBoxes = 2
  /\ output.groundtruth_boxes = << <<2, 1, 5, 3>>, <<0, 4, 2, 1>> >>

\* The id derived from the record's image bytes alone.
HashId == AsString(ToHashBucketFast(example["image/encoded"][1], NumBuckets))

\* C3: the source id is the hash id of the image bytes when the decoder
\* regenerates ids, else the stored id when it is not empty, else the same
\* hash id; the hash id is a function of the image bytes only.
C3_SourceIdPolicy ==
  Returned =>
    output.source_id =
      (IF regenerate_source_id THEN HashId
       ELSE IF Len(StoredSourceId) > 0 THEN StoredSourceId
       ELSE HashId)

\* A regenerating decoder replaces the stored id "img_7" by the hash id.
C3_Witness ==
  /\ Returned /\ regenerate_source_id
  /\ StoredSourceId = "img_7"
  /\ example["image/encoded"][1] = Png2x3
  /\ output.source_id = "747547"

\* C4: a non-empty area list is returned unchanged; with an empty area list
\* the area of box i is (xmax[i] - xmin[i]) * (ymax[i] - ymin[i]), negative
\* and zero products included.
C4_Areas ==
  Returned =>
    IF Len(area1) > 0
    THEN output.groundtruth_area = area1
    ELSE /\ Len(output.groundtruth_area) = NumBoxes
         /\ \A i \in 1 .. NumBoxes :
              output.groundtruth_area[i] = (xmax1[i] - xmin1[i]) * (ymax1[i] - ymin1[i])

\* An inverted box and a box of no width give the areas -6 and 0.
C4_Witness ==
  /\ Returned /\ Len(area1) = 0 /\ NumBoxes = 2
  /\ output.groundtruth_area = <<-6, 0>>

\* C5 as stated: with an empty is_crowd list the crowd flags are one False per
\* box, whatever the length of the class-label list.
C5_OnePerBox ==
  (Returned /\ Len(is_crowd1) = 0) =>
    /\ Len(output.groundtruth_is_crowd) = NumBoxes
    /\ \A i \in 1 .. Len(output.groundtruth_is_crowd) : output.groundtruth_is_crowd[i] = FALSE

\* C5 amended: with an empty is_crowd list the crowd flags are one False per
\* class label; they are one per box when the record has a label per box.
C5_OnePerLabel ==
  (Returned /\ Len(is_crowd1) = 0) =>
    /\ Len(output.groundtruth_is_crowd) = Len(label1)
    /\ \A i \in 1 .. Len(output.groundtruth_is_crowd) : output.groundtruth_is_crowd[i] = FALSE
    /\ Len(label1) = NumBoxes => Len(output.groundtruth_is_crowd) = NumBoxes

\* Two boxes and one class label give one crowd flag.
C5_Witness ==
  /\ Returned /\ Len(is_crowd1) = 0
  /\ NumBoxes = 2 /\ Len(label1) = 1
  /\ output.groundtruth_is_crowd = <<FALSE>>

BaseFields ==
  {"image", "source_id", "height", "width", "groundtruth_classes",
   "groundtruth_is_crowd", "groundtruth_area", "groundtruth_boxes"}

\* C6: the fields of the output are the eight base fields, the pseudo score
\* exactly when activate_pseudo_score, and the two mask fields exactly when
\* include_mask; the encoded masks are the record's mask list.
C6_OutputFields ==
  Returned =>
    /\ DOMAIN output =
         BaseFields
           \cup (IF activate_pseudo_score THEN {"groundtruth_pseudo_score"} ELSE {})
           \cup (IF include_mask
                 THEN {"groundtruth_instance_masks", "groundtruth_instance_masks_png"}
                 ELSE {})
    /\ include_mask => output.groundtruth_instance_masks_png = mask1

\* A decoder with masks and without pseudo scores returns the two masks of
\* the record as given, and no pseudo score although the record has scores.
C6_Witness ==
  /\ Returned /\ include_mask /\ ~activate_pseudo_score
  /\ Len(example["image/object/pseudo_score"]) > 0
  /\ output.groundtruth_instance_masks_png = <<MaskA, MaskB>>
  /\ "groundtruth_pseudo_score" \notin DOMAIN output

\* C7: a record whose coordinate lists differ in length is never decoded: the
\* call does not get past the stacking of the boxes, and nothing is returned.
C7_RaggedBoxesRejected ==
  ~SameLengths =>
    /\ pc[1] \in {"parse", "derive", "raised"}
    /\ decoded_tensors[1] = Nothing

\* Coordinate lists of lengths 2, 1, 2, 2 end the call with an error.
C7_Witness ==
  /\ Len(xmin1) = 2 /\ Len(xmax1) = 1 /\ Len(ymin1) = 2 /\ Len(ymax1) = 2
  /\ pc[1] = "raised" /\ exception[1] = "InvalidArgumentError"
  /\ decoded_tensors[1] = Nothing

\* C8 as stated: a record whose area list or is_crowd list is non-empty and
\* of a length other than the number of boxes is rejected, never decoded.
C8_MismatchRejected ==
  (SameLengths /\ (\/ Len(area1) > 0 /\ Len(area1) # NumBoxes
                   \/ Len(is_crowd1) > 0 /\ Len(is_crowd1) # NumBoxes)) =>
    ~Returned

\* C9: with include_mask, an empty mask list gives masks of shape
\* [0, height, width] for the height and width of the same output, which are
\* never -1; a list of n masks gives the n decoded masks in the record's order.
C9_Masks ==
  (Returned /\ include_mask) =>
    IF Len(mask1) = 0
    THEN /\ output.groundtruth_instance_masks.shape = <<0, output.height, output.width>>
         /\ output.groundtruth_instance_masks.value = <<>>
         /\ DeclaredHeight = -1 => output.height # -1
         /\ DeclaredWidth = -1 => output.width # -1
    ELSE /\ output.groundtruth_instance_masks.shape[1] = Len(mask1)
         /\ Len(output.groundtruth_instance_masks.value) = Len(mask1)
         /\ \A i \in 1 .. Len(mask1) :
              output.groundtruth_instance_masks.value[i] =
                [r \in 1 .. mask1[i][2] |-> [c \in 1 .. mask1[i][3] |-> Pixel(mask1[i], r, c)]]

\* No masks, height declared -1 and width declared 7 over a 2x3 image: the
\* masks have shape [0, 2, 3].
C9_Witness ==
  /\ Returned /\ include_mask /\ Len(mask1) = 0
  /\ DeclaredHeight = -1 /\ DeclaredWidth = 7
  /\ output.groundtruth_instance_masks.shape = <<0, 2, 3>>

-----------------------------------------------------------------------------
\* Properties of the calls of all workers (SpecPipeline).

Finished(w) == pc[w] \in {"returned", "raised"}

\* Two finished calls on the same record ended the same way.
SameRecordSameResult ==
  \A v, w \in Workers :
    (Finished(v) /\ Finished(w) /\ serialized_example[v] = serialized_example[w]) =>
      /\ pc[v] = pc[w]
      /\ exception[v] = exception[w]
      /\ pc[v] = "returned" => decoded_tensors[v] = decoded_tensors[w]

\* A step leaves the decoder's flags and schema as they are, and changes the
\* call of one worker at most.
DecoderUntouched ==
  /\ include_mask' = include_mask
  /\ regenerate_source_id' = regenerate_source_id
  /\ activate_pseudo_score' = activate_pseudo_score
  /\ keys_to_features' = keys_to_features
  /\ \A v, w \in Workers :
       (v # w /\ pc'[v] # pc[v]) =>
         /\ pc'[w] = pc[w]
         /\ decoded_tensors'[w] = decoded_tensors[w]
         /\ exception'[w] = exception[w]

\* C10: whatever calls were made, finished or failed, and however they
\* interleave, the flags and the schema stay as built by __init__, no call
\* disturbs another, and the result of a record does not depend on the other
\* calls.
C10_DecoderImmutable ==
  /\ [](keys_to_features = KeysToFeatures(include_mask, activate_pseudo_score))
  /\ []SameRecordSameResult
  /\ [][DecoderUntouched]_vars

\* One call has failed while another, on another record, has returned.
C10_Witness ==
  \E v, w \in Workers :
    /\ pc[v] = "raised" /\ pc[w] = "returned"
    /\ keys_to_features = KeysToFeatures(include_mask, activate_pseudo_score)

=============================================================================
